---- MODULE Spec2Model ----
(***************************************************************************)
(* Model of froide_crowdfunding/forms.py: the two policy functions         *)
(* (calculate_amount_needed, parse_address), the campaign-start form       *)
(* (CrowdfundingRequestStartForm) and the contribution form                *)
(* (ContributionForm).                                                     *)
(*                                                                         *)
(* Money is counted in cents (the forms' DecimalFields have two decimal    *)
(* places); OVERHEAD_FACTOR is counted in hundredths.  Text is a sequence  *)
(* of characters over a four-letter alphabet: "1" stands for a digit,      *)
(* " " for horizontal whitespace, "\n" for a line break and "a" for any    *)
(* other character.                                                        *)
(***************************************************************************)
EXTENDS Integers, Sequences, FiniteSets, TLC

\* ------------------------------------------------------------ record types
\* (every record of the module lists its fields in the order they have here)
\* a user as ContributionForm.__init__ reads it
UserType == [present : BOOLEAN, address : Seq(STRING)]

\* a match of POSTCODE_RE
MatchType ==
    [found : BOOLEAN, group0 : Seq(STRING), group1 : Seq(STRING),
     group2 : Seq(STRING)]

\* outcome of parse_address and of ContributionForm.__init__
ParsedType ==
    [exc : STRING,
     value : {<<>>} \cup [address : Seq(STRING), postcode : Seq(STRING),
                          city : Seq(STRING)]]
PrefillType ==
    [address : Seq(STRING), exc : STRING, postcode : Seq(STRING),
     city : Seq(STRING), prefilled : BOOLEAN]

\* a FoiRequest as the campaign-start form reads it
RequestType == [id : Nat, title : STRING, costs : Nat]

\* a row of the Crowdfunding table
CrowdfundingType ==
    [title : STRING, request : Nat, user : STRING, kind : STRING,
     description : STRING, public_interest : STRING, amount_requested : Nat,
     amount_needed : Nat, status : STRING]

\* data submitted to CrowdfundingRequestStartForm
StartDataType ==
    [title : STRING, kind : STRING, description : STRING,
     public_interest : STRING, amount_requested : Nat, terms : BOOLEAN]

\* a CrowdfundingRequestStartForm after __init__
StartFormType ==
    [user : STRING, foirequest : RequestType,
     crowdfundings : Seq(CrowdfundingType), data : StartDataType, title_initial : STRING,
     amount_initial : Nat, kind_choices : Seq(STRING)]

\* what a handled campaign-start submission did
StartOutcomeType ==
    [request : Nat, user : STRING, data : StartDataType, kind_choices : Seq(STRING),
     op : {"start"}, field_errors : SUBSET STRING,
     non_field_errors : Seq(STRING), saved : BOOLEAN]

\* a handler working on a campaign-start submission
HandlerType == [pc : {"valid", "rejected", "saved"}, form : StartFormType]

\* data submitted to ContributionForm
ContributionDataType ==
    [address : Seq(STRING), postcode : STRING, city : STRING, terms : BOOLEAN,
     amount : Nat, note : STRING, first_name : STRING,
     last_name : STRING, public : BOOLEAN, country : STRING, email : STRING,
     method : STRING]

\* a row of the Order table
OrderType ==
    [postcode : STRING, city : STRING, id : Nat, user : STRING,
     kind : STRING, description : STRING,
     first_name : STRING, last_name : STRING, country : STRING,
     street_address_1 : Seq(STRING), street_address_2 : Seq(STRING), user_email : STRING,
     total_net : Nat, total_gross : Nat, is_donation : BOOLEAN]

\* a row of the Contribution table
ContributionType ==
    [user : STRING, amount : Nat, note : STRING, public : BOOLEAN,
     crowdfunding : Nat, order : Nat]

\* what a handled contribution submission did
ContributionOutcomeType ==
    [exc : STRING, op : {"contribute"}, field_errors : SUBSET STRING]

\* the tables after ContributionForm.save and the exception leaving it
SaveOutcomeType ==
    [exc : STRING, orders : Seq(OrderType),
     contributions : Seq(ContributionType)]

VARIABLES
    overhead,       \* models.OVERHEAD_FACTOR, in hundredths
    calc_in,        \* argument of calculate_amount_needed, in cents
    calc_out,       \* <<result>> in whole currency units; <<>> before the call
    init_user,      \* the user handed to ContributionForm.__init__
    addr_out,       \* outcome of ContributionForm.__init__; <<>> before the call
    campaigns,      \* the Crowdfunding table, in order of creation
    orders,         \* the Order table, in order of creation
    contributions,  \* the Contribution table, in order of creation
    inflight,       \* campaign-start submissions being handled concurrently
    last            \* what the last handled submission did

vars == <<overhead, calc_in, calc_out, init_user, addr_out,
          campaigns, orders, contributions, inflight, last>>

policy_vars == <<calc_in, calc_out, init_user, addr_out>>
store_vars == <<campaigns, orders, contributions>>

\* ---------------------------------------------------------------- bounds
MaxAmountCents == 3000
MaxTextLen == 7
MaxCampaigns == 2
MaxRaceCampaigns == 2
MaxOrders == 2

NoUser == [present |-> FALSE, address |-> <<>>]

\* ------------------------------------------------------- policy module
\* Values OVERHEAD_FACTOR may be configured to (hundredths), all above 1.
OverheadFactors == {120, 250}

\* the factors calculate_amount_needed is tried with
CalcOverheadFactors ==
    OverheadFactors \cup {101, 105, 110, 115, 150, 199, 200, 201}

\* math.ceil(n / d) for an exact quotient of integers, d > 0
Ceil(n, d) == -((-n) \div d)

\* variants of calculate_amount_needed that round down or to the nearest 10
calculate_amount_needed_floor(amount_requested, factor) ==
    ((amount_requested * factor) \div 100000) * 10

calculate_amount_needed_nearest(amount_requested, factor) ==
    ((amount_requested * factor + 50000) \div 100000) * 10

\* amount_requested in cents, factor in hundredths: the product is in
\* 1/10000 units, so amount_needed / 10 is product / 100000.
calculate_amount_needed(amount_requested, factor) ==
    LET amount_needed == amount_requested * factor
    IN  Ceil(amount_needed, 100000) * 10

\* ------------------------------------------------------------------ text
Chars == {"1", " ", "\n", "a"}
IsDigit(c) == c = "1"
IsSpace(c) == c \in {" ", "\n"}
IsLineBreak(c) == c = "\n"

Texts(n) == UNION {[1..k -> Chars] : k \in 0..n}

\* the first index from 'from' on that holds no whitespace, Len(t)+1 if none
SkipSpace(t, from) ==
    LET stops == {j \in from..Len(t) : ~IsSpace(t[j])}
    IN  IF stops = {} THEN Len(t) + 1
        ELSE CHOOSE j \in stops : \A k \in stops : j <= k

\* the first index from 'from' on that holds a line break, Len(t)+1 if none
LineEnd(t, from) ==
    LET stops == {j \in from..Len(t) : IsLineBreak(t[j])}
    IN  IF stops = {} THEN Len(t) + 1
        ELSE CHOOSE j \in stops : \A k \in stops : j <= k

\* positions where (\d{5})\s+ can start
POSTCODE_RE_starts(t) ==
    {i \in 1..Len(t) :
        /\ i + 5 <= Len(t)
        /\ \A k \in i..(i + 4) : IsDigit(t[k])
        /\ IsSpace(t[i + 5])}

\* POSTCODE_RE.search(t): the leftmost match of (\d{5})\s+(.*); \s+ takes
\* the whole run of whitespace, (.*) the rest of that line.
POSTCODE_RE_search(t) ==
    LET starts == POSTCODE_RE_starts(t)
    IN  IF starts = {} THEN [found |-> FALSE, group0 |-> <<>>,
                             group1 |-> <<>>, group2 |-> <<>>]
        ELSE LET i == CHOOSE a \in starts : \A b \in starts : a <= b
                 j == SkipSpace(t, i + 5)
                 k == LineEnd(t, j)
             IN  [found |-> TRUE,
                  group0 |-> SubSeq(t, i, k - 1),
                  group1 |-> SubSeq(t, i, i + 4),
                  group2 |-> SubSeq(t, j, k - 1)]

\* str.replace(old, ''), old not empty: every non-overlapping occurrence
RECURSIVE Remove(_, _)
Remove(t, old) ==
    IF Len(t) < Len(old) THEN t
    ELSE IF SubSeq(t, 1, Len(old)) = old
         THEN Remove(SubSeq(t, Len(old) + 1, Len(t)), old)
         ELSE <<t[1]>> \o Remove(Tail(t), old)

\* str.strip()
Strip(t) ==
    LET keep == {j \in 1..Len(t) : ~IsSpace(t[j])}
    IN  IF keep = {} THEN <<>>
        ELSE SubSeq(t, CHOOSE a \in keep : \A b \in keep : a <= b,
                       CHOOSE a \in keep : \A b \in keep : a >= b)

\* str.splitlines(): no line for an empty text or after a final line break
RECURSIVE SplitLines(_)
SplitLines(t) ==
    IF t = <<>> THEN <<>>
    ELSE LET k == LineEnd(t, 1)
         IN  <<SubSeq(t, 1, k - 1)>> \o SplitLines(SubSeq(t, k + 1, Len(t)))

EmptyDict == [f \in {} |-> <<>>]

\* parse_address: exc names the exception that leaves the function, value
\* is the returned dict
parse_address(address) ==
    LET match == POSTCODE_RE_search(address)
        refined == SplitLines(Strip(Remove(address, match.group0)))
    IN  IF ~match.found THEN [exc |-> "none", value |-> EmptyDict]
        ELSE IF refined = <<>> THEN [exc |-> "IndexError", value |-> EmptyDict]
        ELSE [exc |-> "none",
              value |-> [f \in {"address", "postcode", "city"} |->
                            CASE f = "address" -> refined[1]
                              [] f = "postcode" -> match.group1
                              [] f = "city" -> match.group2]]

\* dict.get(key, '')
Get(dict, key) == IF key \in DOMAIN dict THEN dict[key] ELSE <<>>

\* ContributionForm.__init__: the initial values of address, postcode, city
ContributionForm_init(user) ==
    IF ~user.present
    THEN [address |-> <<>>, exc |-> "none", postcode |-> <<>>,
          city |-> <<>>, prefilled |-> FALSE]
    ELSE LET parsed == parse_address(user.address)
         IN  IF parsed.exc # "none"
             THEN [address |-> <<>>, exc |-> parsed.exc,
                   postcode |-> <<>>, city |-> <<>>, prefilled |-> FALSE]
             ELSE [address |-> Get(parsed.value, "address"),
                   exc |-> "none",
                   postcode |-> Get(parsed.value, "postcode"),
                   city |-> Get(parsed.value, "city"),
                   prefilled |-> TRUE]

\* ------------------------------------------------- the campaign-start form
\* Crowdfunding.KIND_CHOICES (keys only)
KIND_CHOICES == <<"fees", "appeal", "lawsuit">>

\* status of a Crowdfunding that save_obj_with_slug has just stored
InitialStatus == "needs_approval"

\* the statuses a campaign goes through outside the forms
NextStatus(status) ==
    CASE status = "needs_approval" -> {"running", "finished"}
      [] status = "running" -> {"finished"}
      [] OTHER -> {}

\* FoiRequest objects as the form sees them: title and costs (cents, 0 = none)
Requests == {[id |-> 1, title |-> "t1", costs |-> 0],
             [id |-> 2, title |-> "t2", costs |-> 1500]}
Users == {"u1", "u2"}

\* the 'crowdfundings' a view hands to the form: the campaigns of the request
RequestCampaigns(table, foirequest) ==
    SelectSeq(table, LAMBDA c : c.request = foirequest.id)

can_start_crowdfunding_none_finished(crowdfundings) ==
    ~(\E i \in 1..Len(crowdfundings) : crowdfundings[i].status = "finished")

can_start_crowdfunding(crowdfundings) ==
    IF \E i \in 1..Len(crowdfundings) : crowdfundings[i].status # "finished"
    THEN FALSE
    ELSE TRUE

KindChoices_unfinished_only(crowdfundings) ==
    LET existing_kinds == {crowdfundings[i].kind :
                              i \in {j \in 1..Len(crowdfundings) :
                                       crowdfundings[j].status # "finished"}}
    IN  SelectSeq(KIND_CHOICES, LAMBDA c : c \notin existing_kinds)

\* self.fields['kind'].choices as __init__ sets them
KindChoices(crowdfundings) ==
    LET existing_kinds == {crowdfundings[i].kind : i \in 1..Len(crowdfundings)}
    IN  SelectSeq(KIND_CHOICES, LAMBDA c : c \notin existing_kinds)

\* CrowdfundingRequestStartForm.__init__ on submitted data
StartForm_init(foirequest, crowdfundings, user, data) ==
    [user |-> user,
     foirequest |-> foirequest,
     crowdfundings |-> crowdfundings,
     data |-> data,
     title_initial |-> foirequest.title,
     amount_initial |-> IF foirequest.costs # 0 THEN foirequest.costs ELSE 1000,
     kind_choices |-> KindChoices(crowdfundings)]

InChoices(choices, value) == \E i \in 1..Len(choices) : choices[i] = value

\* the fields whose own validation fails (required, min_value, choices);
\* max_length and max_digits are out of reach of the submitted values
StartForm_field_errors(form) ==
    LET d == form.data
    IN  {f \in {"title", "kind", "description", "public_interest",
                "amount_requested", "terms"} :
            CASE f = "title" -> d.title = ""
              [] f = "kind" -> ~InChoices(form.kind_choices, d.kind)
              [] f = "description" -> d.description = ""
              [] f = "public_interest" -> d.public_interest = ""
              [] f = "amount_requested" -> d.amount_requested < 1000
              [] f = "terms" -> ~d.terms}

StartForm_clean_never_rejects(form) == <<>>

\* CrowdfundingRequestStartForm.clean: the form-level errors it raises
StartForm_clean(form) ==
    IF ~can_start_crowdfunding(form.crowdfundings)
    THEN <<"You have an ongoing crowdfunding.">>
    ELSE <<>>

StartForm_is_valid(form) ==
    /\ StartForm_field_errors(form) = {}
    /\ StartForm_clean(form) = <<>>

StartForm_save_no_overhead(form, factor) ==
    [title |-> form.data.title,
     request |-> form.foirequest.id,
     user |-> form.user,
     kind |-> form.data.kind,
     description |-> form.data.description,
     public_interest |-> form.data.public_interest,
     amount_requested |-> form.data.amount_requested,
     amount_needed |-> form.data.amount_requested \div 100,
     status |-> InitialStatus]

\* CrowdfundingRequestStartForm.save: the Crowdfunding it stores
StartForm_save(form, factor) ==
    [title |-> form.data.title,
     request |-> form.foirequest.id,
     user |-> form.user,
     kind |-> form.data.kind,
     description |-> form.data.description,
     public_interest |-> form.data.public_interest,
     amount_requested |-> form.data.amount_requested,
     amount_needed |-> calculate_amount_needed(form.data.amount_requested,
                                               factor),
     status |-> InitialStatus]

ValidStartData(kind, amount) ==
    [title |-> "t", kind |-> kind, description |-> "d",
     public_interest |-> "p", amount_requested |-> amount, terms |-> TRUE]

\* submitted data: every kind with a valid amount, and one submission for
\* each field that can be wrong
ValidStartInputs ==
    {ValidStartData(KIND_CHOICES[k], 2550) : k \in 1..Len(KIND_CHOICES)}
    \cup {ValidStartData("fees", 1000)}

InvalidStartInputs ==
         {[ValidStartData("fees", 1000) EXCEPT !.title = ""],
          [ValidStartData("fees", 1000) EXCEPT !.kind = "bogus"],
          [ValidStartData("fees", 1000) EXCEPT !.description = ""],
          [ValidStartData("fees", 1000) EXCEPT !.public_interest = ""],
          [ValidStartData("fees", 1000) EXCEPT !.amount_requested = 999],
          [ValidStartData("fees", 1000) EXCEPT !.terms = FALSE]}

NoSubmission == [op |-> "none"]

\* who submits what for which request
StartSubmissions ==
    (Requests \X Users \X ValidStartInputs)
    \cup (Requests \X {"u1"} \X InvalidStartInputs)

\* one submission handled from form construction to the response
StartSubmit(foirequest, user, data) ==
    LET form == StartForm_init(foirequest,
                               RequestCampaigns(campaigns, foirequest),
                               user, data)
        valid == StartForm_is_valid(form)
    IN  /\ Len(campaigns) < MaxCampaigns
        /\ campaigns' = IF valid
                        THEN Append(campaigns, StartForm_save(form, overhead))
                        ELSE campaigns
        /\ last' = [request |-> foirequest.id,
                    user |-> user,
                    data |-> data,
                    kind_choices |-> form.kind_choices,
                    op |-> "start",
                    field_errors |-> StartForm_field_errors(form),
                    non_field_errors |-> StartForm_clean(form),
                    saved |-> valid]
        /\ UNCHANGED <<overhead, policy_vars, orders, contributions, inflight>>

\* a campaign's status moves on, outside the forms
StatusChange(i) ==
    /\ i \in 1..Len(campaigns)
    /\ \E s \in NextStatus(campaigns[i].status) :
          campaigns' = [campaigns EXCEPT ![i].status = s]
    /\ last' = [op |-> "status"]
    /\ UNCHANGED <<overhead, policy_vars, orders, contributions, inflight>>

\* --------------------------------------------------- concurrent handling
Handlers == {"h1", "h2"}
Idle == [pc |-> "idle"]
HandlerUser(h) == IF h = "h1" THEN "u1" ELSE "u2"

RaceInputs ==
    {ValidStartData("fees", 2550), ValidStartData("appeal", 2550),
     [ValidStartData("fees", 2550) EXCEPT !.terms = FALSE]}

\* a handler builds the form from the campaigns stored now and validates it
RaceValidate(h, foirequest, data) ==
    LET form == StartForm_init(foirequest,
                               RequestCampaigns(campaigns, foirequest),
                               HandlerUser(h), data)
        passed == {g \in Handlers : inflight[g].pc = "valid"}
    IN  /\ inflight[h].pc = "idle"
        /\ Len(campaigns) + Cardinality(passed) < MaxRaceCampaigns
        /\ inflight' = [inflight EXCEPT ![h] =
              [pc |-> IF StartForm_is_valid(form) THEN "valid" ELSE "rejected",
               form |-> form]]
        /\ UNCHANGED <<overhead, policy_vars, store_vars, last>>

RaceSave_rechecks(h) ==
    /\ inflight[h].pc = "valid"
    /\ campaigns' =
          IF can_start_crowdfunding(
                 RequestCampaigns(campaigns, inflight[h].form.foirequest))
          THEN Append(campaigns, StartForm_save(inflight[h].form, overhead))
          ELSE campaigns
    /\ inflight' = [inflight EXCEPT ![h].pc = "saved"]
    /\ UNCHANGED <<overhead, policy_vars, orders, contributions, last>>

\* a handler whose form is valid saves it
RaceSave(h) ==
    /\ inflight[h].pc = "valid"
    /\ campaigns' = Append(campaigns, StartForm_save(inflight[h].form, overhead))
    /\ inflight' = [inflight EXCEPT ![h].pc = "saved"]
    /\ UNCHANGED <<overhead, policy_vars, orders, contributions, last>>

\* the response is sent and the handler takes the next submission
RaceRespond(h) ==
    /\ inflight[h].pc \in {"rejected", "saved"}
    /\ inflight' = [inflight EXCEPT ![h] = Idle]
    /\ UNCHANGED <<overhead, policy_vars, store_vars, last>>

\* ------------------------------------------------- the contribution form
\* froide_payment.models.PAYMENT_METHODS (keys only)
PAYMENT_METHODS == <<"creditcard", "lastschrift">>
COUNTRY_CHOICES == <<"DE", "AT", "CH">>

\* '\n'.join(lines)
RECURSIVE JoinLines(_)
JoinLines(lines) ==
    IF lines = <<>> THEN <<>>
    ELSE IF Len(lines) = 1 THEN lines[1]
    ELSE lines[1] \o <<"\n">> \o JoinLines(Tail(lines))

\* the fields whose own validation fails; CharFields strip their value
ContributionForm_field_errors(data) ==
    {f \in {"amount", "first_name", "last_name", "address", "postcode",
            "city", "country", "email", "method", "terms"} :
        CASE f = "amount" -> data.amount < 100
          [] f = "first_name" -> data.first_name = ""
          [] f = "last_name" -> data.last_name = ""
          [] f = "address" -> Strip(data.address) = <<>>
          [] f = "postcode" -> data.postcode = ""
          [] f = "city" -> data.city = ""
          [] f = "country" -> ~InChoices(COUNTRY_CHOICES, data.country)
          [] f = "email" -> data.email = ""
          [] f = "method" -> ~InChoices(PAYMENT_METHODS, data.method)
          [] f = "terms" -> ~data.terms}

\* self.cleaned_data of a valid form
ContributionForm_cleaned_data(data) ==
    [data EXCEPT !.address = Strip(data.address)]

\* the Order that save hands to Order.objects.create
ContributionForm_order(user, crowdfunding, d, id) ==
    LET address_lines == SplitLines(d.address)
    IN  [postcode |-> d.postcode,
         city |-> d.city,
         id |-> id,
         user |-> user,
         kind |-> "froide_crowdfunding.Contribution",
         description |-> crowdfunding.title,
         first_name |-> d.first_name,
         last_name |-> d.last_name,
         country |-> d.country,
         street_address_1 |-> address_lines[1],
         street_address_2 |-> JoinLines(Tail(address_lines)),
         user_email |-> d.email,
         total_net |-> d.amount,
         total_gross |-> d.amount,
         is_donation |-> TRUE]

\* the Contribution that save hands to Contribution.objects.create
ContributionForm_contribution(user, pk, d, order_id) ==
    [user |-> user,
     amount |-> d.amount,
     note |-> d.note,
     public |-> d.public,
     crowdfunding |-> pk,
     order |-> order_id]

ContributionForm_save_contribution_first(user, pk, data, order_ok, contribution_ok) ==
    LET d == ContributionForm_cleaned_data(data)
        id == Len(orders) + 1
        withContribution ==
            IF contribution_ok
            THEN Append(contributions,
                        ContributionForm_contribution(user, pk, d, id))
            ELSE contributions
    IN  IF pk = 0 \/ ~contribution_ok
        THEN [exc |-> IF pk = 0 THEN "AttributeError" ELSE "contribution",
              orders |-> orders, contributions |-> contributions]
        ELSE IF ~order_ok
        THEN [exc |-> "order", orders |-> orders,
              contributions |-> withContribution]
        ELSE [exc |-> "none",
              orders |-> Append(orders,
                  ContributionForm_order(user, campaigns[pk], d, id)),
              contributions |-> withContribution]

ContributionForm_save_reuses_order(user, pk, data, order_ok, contribution_ok) ==
    LET d == ContributionForm_cleaned_data(data)
        same == {i \in 1..Len(orders) :
                    orders[i].user = user /\ orders[i].total_net = d.amount}
        id == IF same = {} THEN Len(orders) + 1
              ELSE orders[CHOOSE i \in same : TRUE].id
    IN  IF pk = 0
        THEN [exc |-> "AttributeError",
              orders |-> orders, contributions |-> contributions]
        ELSE IF ~order_ok
        THEN [exc |-> "order",
              orders |-> orders, contributions |-> contributions]
        ELSE LET stored == IF same = {}
                           THEN Append(orders, ContributionForm_order(
                                    user, campaigns[pk], d, id))
                           ELSE orders
             IN  IF ~contribution_ok
                 THEN [exc |-> "contribution",
                       orders |-> stored, contributions |-> contributions]
                 ELSE [exc |-> "none",
                       orders |-> stored,
                       contributions |-> Append(contributions,
                           ContributionForm_contribution(user, pk, d, id))]

\* ContributionForm.save for the campaign with primary key pk (0: the form
\* was built without a crowdfunding): the tables afterwards and the
\* exception that leaves save.  order_ok and contribution_ok say whether
\* Order.objects.create and Contribution.objects.create succeed.
ContributionForm_save(user, pk, data, order_ok, contribution_ok) ==
    LET d == ContributionForm_cleaned_data(data)
        id == Len(orders) + 1
    IN  IF pk = 0
        THEN [exc |-> "AttributeError",
              orders |-> orders, contributions |-> contributions]
        ELSE IF ~order_ok
        THEN [exc |-> "order",
              orders |-> orders, contributions |-> contributions]
        ELSE LET stored == Append(orders, ContributionForm_order(
                                user, campaigns[pk], d, id))
             IN  IF ~contribution_ok
                 THEN [exc |-> "contribution",
                       orders |-> stored, contributions |-> contributions]
                 ELSE [exc |-> "none",
                       orders |-> stored,
                       contributions |-> Append(contributions,
                           ContributionForm_contribution(user, pk, d, id))]

ValidContribution(amount, address) ==
    [address |-> address, postcode |-> "11111", city |-> "c",
     terms |-> TRUE, amount |-> amount, note |-> "", first_name |-> "f",
     last_name |-> "l", public |-> FALSE, country |-> "DE", email |-> "e",
     method |-> "creditcard"]

\* submitted data: two amounts, a one-line and a two-line address, and
\* submissions with one wrong field
ValidContributionInputs ==
    {ValidContribution(100, <<"a">>), ValidContribution(1000, <<"a">>),
     ValidContribution(100, <<"a", "\n", "a", " ">>)}

InvalidContributionInputs ==
         {[ValidContribution(100, <<"a">>) EXCEPT !.amount = 50],
          [ValidContribution(100, <<"a">>) EXCEPT !.address = <<" ">>],
          [ValidContribution(100, <<"a">>) EXCEPT !.country = "FR"],
          [ValidContribution(100, <<"a">>) EXCEPT !.terms = FALSE]}

\* the contributing user; "guest" is a form built with user=None
Contributors == {"u1", "guest"}

\* who submits what, and whether the two creates succeed
ContributionSubmissions ==
    (Contributors \X ValidContributionInputs \X BOOLEAN \X BOOLEAN)
    \cup ({"u1"} \X InvalidContributionInputs \X {TRUE} \X {TRUE})

\* one contribution submission handled from validation to the response
ContributeSubmit(user, pk, data, order_ok, contribution_ok) ==
    LET errors == ContributionForm_field_errors(data)
        done == ContributionForm_save(user, pk, data, order_ok,
                                      contribution_ok)
    IN  /\ pk \in 0..Len(campaigns)
        /\ Len(orders) < MaxOrders
        /\ orders' = IF errors = {} THEN done.orders ELSE orders
        /\ contributions' = IF errors = {} THEN done.contributions
                            ELSE contributions
        /\ last' = [exc |-> IF errors = {} THEN done.exc ELSE "none",
                    op |-> "contribute",
                    field_errors |-> errors]
        /\ UNCHANGED <<overhead, policy_vars, campaigns, inflight>>

\* -------------------------------------------------------- specifications
PolicyIdle ==
    /\ calc_in = 0
    /\ calc_out = <<>>
    /\ init_user = NoUser
    /\ addr_out = <<>>

StoreEmpty ==
    /\ campaigns = <<>>
    /\ orders = <<>>
    /\ contributions = <<>>
    /\ inflight = [h \in Handlers |-> Idle]
    /\ last = NoSubmission

\* calculate_amount_needed on every amount up to MaxAmountCents
CalcInit ==
    /\ overhead \in CalcOverheadFactors
    /\ calc_in \in 0..MaxAmountCents
    /\ calc_out = <<>>
    /\ init_user = NoUser
    /\ addr_out = <<>>
    /\ StoreEmpty

Calculate ==
    /\ calc_out = <<>>
    /\ calc_out' = <<calculate_amount_needed(calc_in, overhead)>>
    /\ UNCHANGED <<overhead, calc_in, init_user, addr_out, store_vars,
                   inflight, last>>

CalcNext == Calculate

SpecCalc == CalcInit /\ [][CalcNext]_vars

\* ContributionForm.__init__ for every user address up to MaxTextLen
AddrInit ==
    /\ overhead \in OverheadFactors
    /\ calc_in = 0
    /\ calc_out = <<>>
    /\ init_user \in {NoUser} \cup
            {[present |-> TRUE, address |-> t] : t \in Texts(MaxTextLen)}
    /\ addr_out = <<>>
    /\ StoreEmpty

NewContributionForm ==
    /\ addr_out = <<>>
    /\ addr_out' = <<ContributionForm_init(init_user)>>
    /\ UNCHANGED <<overhead, calc_in, calc_out, init_user, store_vars,
                   inflight, last>>

AddrNext == NewContributionForm

SpecAddr == AddrInit /\ [][AddrNext]_vars

\* campaign-start submissions handled one at a time
Init ==
    /\ overhead \in OverheadFactors
    /\ PolicyIdle
    /\ StoreEmpty

Next ==
    \/ \E s \in StartSubmissions : StartSubmit(s[1], s[2], s[3])
    \/ \E i \in 1..MaxCampaigns : StatusChange(i)

Spec == Init /\ [][Next]_vars

\* campaign-start submissions handled by two handlers at once
RaceNext ==
    \/ \E h \in Handlers, r \in Requests, d \in RaceInputs :
          RaceValidate(h, r, d)
    \/ \E h \in Handlers : RaceSave(h)
    \/ \E h \in Handlers : RaceRespond(h)
    \/ \E i \in 1..MaxRaceCampaigns : StatusChange(i)

SpecRace == Init /\ [][RaceNext]_vars

\* contributions to the campaigns of request 1
ContributionNext ==
    \/ \E r \in {q \in Requests : q.id = 1}, k \in {"fees", "appeal"} :
          StartSubmit(r, "u1", ValidStartData(k, 2550))
    \/ \E s \in ContributionSubmissions, pk \in 0..MaxCampaigns :
          ContributeSubmit(s[1], pk, s[2], s[3], s[4])

SpecContribution == Init /\ [][ContributionNext]_vars

\* ------------------------------------------------ claims: campaign start
\* indices of the campaigns of request id that are not finished
Unfinished(table, id) ==
    {i \in 1..Len(table) :
        table[i].request = id /\ table[i].status # "finished"}

KindsOf(table, id, indices) ==
    {table[i].kind : i \in {j \in indices : table[j].request = id}}

\* C1: with submissions handled one at a time and campaigns moving to
\* 'finished' outside the form, a request never has more than one campaign
\* that is not finished.
C1_AtMostOneUnfinished ==
    \A r \in Requests : Cardinality(Unfinished(campaigns, r.id)) <= 1

\* a second campaign of a request, started after the first one finished
C1_Witness ==
    \E r \in Requests :
        /\ Cardinality(Unfinished(campaigns, r.id)) = 1
        /\ \E i \in 1..Len(campaigns) :
              campaigns[i].request = r.id /\ campaigns[i].status = "finished"

\* C2: a submission for a request with a campaign that is not finished is
\* rejected with exactly one form-level error and stores nothing, whatever
\* the submitted values are.
C2_OngoingRejected ==
    [][(last'.op = "start" /\ Unfinished(campaigns, last'.request) # {}) =>
          /\ campaigns' = campaigns
          /\ Len(last'.non_field_errors) = 1
          /\ ~last'.saved]_vars

\* a submission with valid fields rejected by the form-level check alone
C2_Witness ==
    /\ last.op = "start"
    /\ last.field_errors = {}
    /\ Len(last.non_field_errors) = 1
    /\ ~last.saved

\* field validity of a submission, given the campaigns of its request
FieldValid(table, id, data) ==
    /\ data.title # ""
    /\ data.description # ""
    /\ data.public_interest # ""
    /\ data.amount_requested >= 1000
    /\ data.terms
    /\ \E k \in 1..Len(KIND_CHOICES) : KIND_CHOICES[k] = data.kind
    /\ data.kind \notin KindsOf(table, id, 1..Len(table))

\* C6: a field-valid submission for a request without unfinished campaigns
\* is valid and its save stores exactly one new campaign carrying the
\* form's user and request and amount_needed =
\* calculate_amount_needed(amount_requested).
C6_ValidStartPersists ==
    [][(/\ last'.op = "start"
        /\ Unfinished(campaigns, last'.request) = {}
        /\ FieldValid(campaigns, last'.request, last'.data)) =>
          /\ last'.saved
          /\ Len(campaigns') = Len(campaigns) + 1
          /\ SubSeq(campaigns', 1, Len(campaigns)) = campaigns
          /\ LET new == campaigns'[Len(campaigns')]
             IN  /\ new.user = last'.user
                 /\ new.request = last'.request
                 /\ new.amount_requested = last'.data.amount_requested
                 /\ new.amount_needed =
                       calculate_amount_needed(new.amount_requested,
                                               overhead)]_vars

\* the second campaign of request 2, started by u2 after the first finished
C6_Witness ==
    /\ last.op = "start"
    /\ last.saved
    /\ last.user = "u2"
    /\ last.request = 2
    /\ Len(campaigns) = 2
    /\ campaigns[1].request = 2
    /\ campaigns[1].status = "finished"
    /\ campaigns[2].request = 2

\* C8 as stated: a kind is left out of the offered and accepted options
\* exactly when an unfinished campaign of the request has it.
C8_ExcludesUnfinishedKinds ==
    [][last'.op = "start" =>
          \A k \in 1..Len(KIND_CHOICES) :
              ~InChoices(last'.kind_choices, KIND_CHOICES[k])
                 <=> KIND_CHOICES[k] \in
                        KindsOf(campaigns, last'.request,
                                Unfinished(campaigns, last'.request))]_vars

\* C8 amended: a kind is left out of the offered and accepted options
\* exactly when some campaign of the request has it, finished or not; a
\* submitted kind is accepted exactly when it is among the offered ones.
C8_ExcludesUsedKinds ==
    [][last'.op = "start" =>
          /\ \A k \in 1..Len(KIND_CHOICES) :
                ~InChoices(last'.kind_choices, KIND_CHOICES[k])
                   <=> KIND_CHOICES[k] \in
                          KindsOf(campaigns, last'.request,
                                  1..Len(campaigns))
          /\ "kind" \in last'.field_errors
                <=> \/ last'.data.kind \in
                          KindsOf(campaigns, last'.request,
                                  1..Len(campaigns))
                    \/ ~InChoices(KIND_CHOICES, last'.data.kind)]_vars

\* the kind of a finished campaign submitted again and refused
C8_Witness ==
    /\ last.op = "start"
    /\ "kind" \in last.field_errors
    /\ last.non_field_errors = <<>>
    /\ \E i \in 1..Len(campaigns) :
          /\ campaigns[i].request = last.request
          /\ campaigns[i].kind = last.data.kind
          /\ campaigns[i].status = "finished"

\* C7: handled concurrently, two submissions for one request can both pass
\* the check before either campaign is stored; each save then stores its
\* campaign whatever has been stored since the check, so a request ends
\* up with two unfinished campaigns.
C7_SaveIgnoresLaterCampaigns ==
    [][\A h \in Handlers :
          (inflight[h].pc = "valid" /\ inflight'[h].pc = "saved") =>
              /\ Len(campaigns') = Len(campaigns) + 1
              /\ SubSeq(campaigns', 1, Len(campaigns)) = campaigns
              /\ campaigns'[Len(campaigns')].request =
                    inflight[h].form.foirequest.id
              /\ campaigns'[Len(campaigns')].user = HandlerUser(h)
              /\ campaigns'[Len(campaigns')].status # "finished"]_vars

\* both handlers have saved and their request has two unfinished campaigns
C7_Witness ==
    /\ \A h \in Handlers : inflight[h].pc = "saved"
    /\ \E r \in Requests : Cardinality(Unfinished(campaigns, r.id)) = 2

\* ------------------------------------------------- claims: contributions
OrderIds == {orders[i].id : i \in 1..Len(orders)}

\* C3: the Order is created before the Contribution: every stored
\* Contribution references a stored Order, and a save whose order creation
\* fails stores no Contribution.
C3_NoContributionWithoutOrder ==
    [][/\ \A i \in 1..Len(contributions') :
             \E j \in 1..Len(orders') : orders'[j].id = contributions'[i].order
       /\ (last'.op = "contribute" /\ last'.exc = "order") =>
             /\ contributions' = contributions
             /\ orders' = orders]_vars

\* an order creation that failed after an earlier contribution was stored
C3_Witness ==
    /\ last.op = "contribute"
    /\ last.exc = "order"
    /\ Len(contributions) = 1

\* C4: a successful save stores exactly one Order and exactly one
\* Contribution referencing it; every Contribution references exactly one
\* Order and no Order is referenced by two Contributions.
C4_OneOrderPerContribution ==
    [][/\ (/\ last'.op = "contribute"
           /\ last'.field_errors = {}
           /\ last'.exc = "none") =>
             /\ Len(orders') = Len(orders) + 1
             /\ SubSeq(orders', 1, Len(orders)) = orders
             /\ orders'[Len(orders')].id \notin OrderIds
             /\ Len(contributions') = Len(contributions) + 1
             /\ SubSeq(contributions', 1, Len(contributions)) = contributions
             /\ contributions'[Len(contributions')].order =
                   orders'[Len(orders')].id
       /\ \A i \in 1..Len(contributions') :
             Cardinality({j \in 1..Len(orders') :
                 orders'[j].id = contributions'[i].order}) = 1
       /\ \A i, k \in 1..Len(contributions') :
             contributions'[i].order = contributions'[k].order => i = k]_vars

\* two contributions of the same user and amount, each with its own order
C4_Witness ==
    /\ last.op = "contribute"
    /\ last.exc = "none"
    /\ Len(contributions) = 2
    /\ contributions[1].user = contributions[2].user
    /\ contributions[1].amount = contributions[2].amount
    /\ contributions[1].order # contributions[2].order

\* ------------------------------------------------- claims: policy module
\* C5: for every non-negative amount x and an overhead factor above 1,
\* calculate_amount_needed(x) is a multiple of 10, is at least x, is at
\* least x times the factor and is less than x times the factor plus 10.
C5_RoundUpToNextTen ==
    calc_out # <<>> =>
        /\ calc_out[1] % 10 = 0
        /\ calc_out[1] * 100 >= calc_in
        /\ calc_out[1] * 10000 >= calc_in * overhead
        /\ calc_out[1] * 10000 < calc_in * overhead + 10 * 10000

\* a case where rounding moves the value: 10.01 requested
C5_Witness ==
    /\ calc_out # <<>>
    /\ calc_in = 1001
    /\ calc_out[1] * 10000 > calc_in * overhead

\* C9 as stated: calculate_amount_needed(10) equals 10.
C9_TenGivesTen ==
    (calc_out # <<>> /\ calc_in = 1000) => calc_out[1] = 10

\* C9 amended: with an overhead factor above 1, calculate_amount_needed(10)
\* is never 10: it is 20 when the factor is at most 2 and more above that.
C9_TenGivesTwenty ==
    (calc_out # <<>> /\ calc_in = 1000 /\ overhead > 100) =>
        /\ calc_out[1] >= 20
        /\ overhead <= 200 => calc_out[1] = 20

\* 10 requested with the factor 2: 20 exactly, without rounding
C9_Witness ==
    /\ calc_in = 1000
    /\ overhead = 200
    /\ calc_out = <<20>>

HasPostcode(t) ==
    \E i \in 1..Len(t) :
        /\ i + 5 <= Len(t)
        /\ \A k \in i..(i + 4) : t[k] = "1"
        /\ t[i + 5] \in {" ", "\n"}

\* C10: for every text parse_address returns without raising; without a
\* group of 5 digits followed by whitespace the result is empty, otherwise
\* it holds address, postcode and city, also when the text is only the
\* postcode-and-city line.
C10_ParseNeverRaises ==
    (addr_out # <<>> /\ init_user.present) =>
        /\ addr_out[1].exc = "none"
        /\ ~HasPostcode(init_user.address) =>
              /\ addr_out[1].address = <<>>
              /\ addr_out[1].postcode = <<>>
              /\ addr_out[1].city = <<>>
        /\ HasPostcode(init_user.address) =>
              /\ addr_out[1].prefilled
              /\ addr_out[1].postcode = <<"1", "1", "1", "1", "1">>

====
